---------------------------- MODULE Spec2Model ----------------------------
(***************************************************************************)
(* A model of the OEFB player statistics scraper (scrape_two_step.py and   *)
(* its older variant scrape_two_step_clickevent-working.py): the record    *)
(* extractor scrape_from_page, its caller scrape_player_stats, the SQLite  *)
(* store (save_player_to_db, save_games_to_db) and the two chart queries.  *)
(*                                                                         *)
(* Text is modelled as a sequence of one-character strings, so that the    *)
(* Python string operations the code uses (isdigit, int, split, strip,     *)
(* replace, upper, re.search, strptime, strftime, SQL string comparison)   *)
(* are computed character by character.                                    *)
(*                                                                         *)
(* The specifications share the variables: SpecScrape scrapes one page     *)
(* (any page of Pages), SpecLoad runs the browser session of one scrape    *)
(* step by step, SpecFetch fetches one JSON response, SpecGames runs       *)
(* save_games_to_db calls on the games table, SpecStore runs all the       *)
(* store's operations and the chart queries, SpecCollide runs              *)
(* save_games_to_db on records without a parsed date, SpecNoDate saves and *)
(* charts such records beside dated ones, SpecWriters runs two             *)
(* save_games_to_db executions side by side (SpecFaulty: on storage that   *)
(* can fail), SpecStats runs only                                          *)
(* save_player_stats_to_db calls, SpecBatch runs the main loop             *)
(* over the roster (SpecRun: with save_player_stats_to_db also called      *)
(* from elsewhere).                                                        *)
(***************************************************************************)
EXTENDS Integers, Sequences, FiniteSets, Bags, TLC

VARIABLES
    page,        \* what the site delivered: LoadFailed or the matching divs of
                 \* the rendered page; on the JSON path, the HTTP response
    games_data,  \* scrape_from_page's return value (None or a list of games)
    data,        \* scrape_player_stats's return value (None or {'spieleAlle': ..});
                 \* on the JSON path, fetch_json_data's
    pc,          \* position in scrape_player_stats: "start", "scraped", "done",
                 \* and inside scrape_from_page the step that is next
    players,     \* table players: player_id -> [player_name, team, season_year]
    games,       \* table games: a bag of rows (the surrogate id is never read)
    last,        \* the last store operation and what it returned
    attempted,   \* the players the main loop has called print_player_stats for
    session,     \* the browser session of scrape_from_page: the outcomes of
                 \* its steps so far
    writers      \* the save_games_to_db executions that run side by side, each
                 \* on its own connection: position, counts, open transaction

vars == <<page, games_data, data, pc, players, games, last, attempted, session,
          writers>>

scrapeVars == <<page, games_data, data, pc, attempted, session>>
storeVars == <<players, games, last, writers>>

---------------------------------------------------------------------------
(* Bounds of the model.                                                    *)

\* the number of chunks (whole runs or single fragments) a page is made of
MaxChunks == 3
\* the length of a record sequence handed to save_games_to_db
MaxGames == 2
\* the same, where the players table and the charts are modelled too
MaxStoreGames == 1

---------------------------------------------------------------------------
(* Python values.                                                          *)

\* Python's None, as a function result
None == [none |-> TRUE]
\* a Python list as a function result (so that it can be told from None)
List(s) == [list |-> s]
IsNone(v) == "none" \in DOMAIN v
\* `not v` for v None or a list
Falsy(v) == IsNone(v) \/ v.list = <<>>

\* SQL NULL in a TEXT column
NULL == <<"NULL">>

\* a dict: a function from a finite set of keys
EmptyDict == [k \in {} |-> 0]
Put(d, k, v) == [z \in DOMAIN d \cup {k} |-> IF z = k THEN v ELSE d[z]]
\* d.get(k, default)
Get(d, k, default) == IF k \in DOMAIN d THEN d[k] ELSE default

---------------------------------------------------------------------------
(* Strings.                                                                *)

DigitChars == <<"0", "1", "2", "3", "4", "5", "6", "7", "8", "9">>
DecimalDigits == {DigitChars[i] : i \in 1..10}
DigitVal(c) == (CHOOSE i \in 1..10 : DigitChars[i] = c) - 1
\* characters for which str.isdigit() is true and that int() rejects
\* (superscript two stands for Unicode's digits that are not decimal)
OtherDigits == {"^2"}
Whitespace == {" "}

\* str.isdigit()
IsDigitStr(text) ==
    /\ Len(text) > 0
    /\ \A i \in 1..Len(text) : text[i] \in DecimalDigits \cup OtherDigits

\* int(text) raises ValueError: called only on text for which isdigit() holds
IntRaises(text) == \E i \in 1..Len(text) : text[i] \notin DecimalDigits

RECURSIVE IntOf(_)
\* int(text) for decimal text
IntOf(text) ==
    IF text = <<>> THEN 0
    ELSE 10 * IntOf(SubSeq(text, 1, Len(text) - 1)) + DigitVal(text[Len(text)])

RECURSIVE StrOfNat(_)
StrOfNat(n) ==
    IF n < 10 THEN <<DigitChars[n + 1]>>
    ELSE StrOfNat(n \div 10) \o <<DigitChars[(n % 10) + 1]>>
\* str(n) for an integer
StrOfInt(n) == IF n < 0 THEN <<"-">> \o StrOfNat(0 - n) ELSE StrOfNat(n)

\* s.find(sub) from position `from`, 1-based; 0 when absent
Find(s, sub, from) ==
    LET hits == {i \in from..(Len(s) - Len(sub) + 1) :
                    SubSeq(s, i, i + Len(sub) - 1) = sub}
    IN  IF hits = {} THEN 0 ELSE CHOOSE i \in hits : \A j \in hits : i <= j

\* sub in s
Contains(s, sub) == Find(s, sub, 1) # 0

RECURSIVE Split(_, _)
\* s.split(sep): every occurrence of sep separates, scanning left to right
Split(s, sep) ==
    LET i == Find(s, sep, 1)
    IN  IF i = 0 THEN <<s>>
        ELSE <<SubSeq(s, 1, i - 1)>> \o Split(SubSeq(s, i + Len(sep), Len(s)), sep)

RECURSIVE Remove(_, _)
\* s.replace(old, '')
Remove(s, old) ==
    LET i == Find(s, old, 1)
    IN  IF i = 0 THEN s
        ELSE SubSeq(s, 1, i - 1) \o Remove(SubSeq(s, i + Len(old), Len(s)), old)

\* s.strip()
Strip(s) ==
    LET keep == {i \in 1..Len(s) : s[i] \notin Whitespace}
    IN  IF keep = {} THEN <<>>
        ELSE SubSeq(s, CHOOSE i \in keep : \A j \in keep : i <= j,
                       CHOOSE i \in keep : \A j \in keep : i >= j)

UpperChar(c) ==
    CASE c = "u" -> "U"
      [] c = "p" -> "P"
      [] c = "i" -> "I"
      [] c = "g" -> "G"
      [] c = "a" -> "A"
      [] c = "h" -> "H"
      [] c = "r" -> "R"
      [] OTHER -> c
\* s.upper()
Upper(s) == [i \in 1..Len(s) |-> UpperChar(s[i])]

\* the length of the run of decimal digits of s that starts at position i
RECURSIVE DigitRun(_, _)
DigitRun(s, i) ==
    IF i > Len(s) \/ s[i] \notin DecimalDigits THEN 0 ELSE 1 + DigitRun(s, i + 1)

\* re.search(r'U\d+', s): the leftmost "U" followed by digits, with all of them
\* (group(0)), or <<>> for no match
SearchAgeGroup(s) ==
    LET hits == {i \in 1..Len(s) : s[i] = "U" /\ DigitRun(s, i + 1) > 0}
    IN  IF hits = {} THEN <<>>
        ELSE LET i == CHOOSE i \in hits : \A j \in hits : i <= j
             IN  SubSeq(s, i, i + DigitRun(s, i + 1))

\* the code of a character, for SQL's comparison of TEXT values
Ord(c) ==
    CASE c = " " -> 32
      [] c = "-" -> 45
      [] c = ":" -> 58
      [] OTHER -> 48 + DigitVal(c)

RECURSIVE StrLeq(_, _)
\* a <= b for two TEXT values (BINARY collation: code by code, a prefix first)
StrLeq(a, b) ==
    IF a = <<>> THEN TRUE
    ELSE IF b = <<>> THEN FALSE
    ELSE IF Ord(Head(a)) # Ord(Head(b)) THEN Ord(Head(a)) < Ord(Head(b))
    ELSE StrLeq(Tail(a), Tail(b))

---------------------------------------------------------------------------
(* Dates.  The code holds a match time as epoch milliseconds; the model    *)
(* holds the same instant in epoch seconds (the value divided by 1000,     *)
(* exact because the parsed format has no seconds), which fits the model   *)
(* checker's integers.  Zero stays zero, so the "unknown time" sentinel    *)
(* and the truth test `if timestamp:` are unchanged.  The local time zone  *)
(* is taken to be UTC; timestamp() and fromtimestamp() use the same zone.  *)

IsLeap(y) == (y % 4 = 0 /\ y % 100 # 0) \/ y % 400 = 0
DaysInMonth(y, m) ==
    IF m = 2 THEN (IF IsLeap(y) THEN 29 ELSE 28)
    ELSE IF m \in {4, 6, 9, 11} THEN 30 ELSE 31

\* days from 1970-01-01 to the civil date y-m-d
DaysFromCivil(y, m, d) ==
    LET yy == IF m <= 2 THEN y - 1 ELSE y
        era == yy \div 400
        yoe == yy - era * 400
        mp == IF m > 2 THEN m - 3 ELSE m + 9
        doy == (153 * mp + 2) \div 5 + d - 1
        doe == yoe * 365 + yoe \div 4 - yoe \div 100 + doy
    IN  era * 146097 + doe - 719468

\* the civil date of the day z days after 1970-01-01
CivilFromDays(z) ==
    LET zz == z + 719468
        era == zz \div 146097
        doe == zz - era * 146097
        yoe == (doe - doe \div 1460 + doe \div 36524 - doe \div 146096) \div 365
        doy == doe - (365 * yoe + yoe \div 4 - yoe \div 100)
        mp == (5 * doy + 2) \div 153
        d == doy - (153 * mp + 2) \div 5 + 1
        m == IF mp < 10 THEN mp + 3 ELSE mp - 9
        y == yoe + era * 400
    IN  [y |-> IF m <= 2 THEN y + 1 ELSE y, m |-> m, d |-> d]

AllDecimal(t) == \A i \in 1..Len(t) : t[i] \in DecimalDigits

\* the directive patterns of strptime (_strptime.TimeRE)
MatchesDay(t) ==
    \/ Len(t) = 1 /\ t[1] \in DecimalDigits \ {"0"}
    \/ /\ Len(t) = 2
       /\ \/ t[1] = "3" /\ t[2] \in {"0", "1"}
          \/ t[1] \in {"1", "2"} /\ t[2] \in DecimalDigits
          \/ t[1] \in {"0", " "} /\ t[2] \in DecimalDigits \ {"0"}
MatchesMonth(t) ==
    \/ Len(t) = 1 /\ t[1] \in DecimalDigits \ {"0"}
    \/ /\ Len(t) = 2
       /\ \/ t[1] = "1" /\ t[2] \in {"0", "1", "2"}
          \/ t[1] = "0" /\ t[2] \in DecimalDigits \ {"0"}
MatchesYear(t) == Len(t) = 4 /\ AllDecimal(t)
MatchesHour(t) ==
    \/ Len(t) = 1 /\ t[1] \in DecimalDigits
    \/ /\ Len(t) = 2
       /\ \/ t[1] = "2" /\ t[2] \in {"0", "1", "2", "3"}
          \/ t[1] \in {"0", "1"} /\ t[2] \in DecimalDigits
MatchesMinute(t) ==
    \/ Len(t) = 1 /\ t[1] \in DecimalDigits
    \/ Len(t) = 2 /\ t[1] \in {"0", "1", "2", "3", "4", "5"} /\ t[2] \in DecimalDigits

\* the length of the run of whitespace of s that starts at position i
RECURSIVE SpaceRun(_, _)
SpaceRun(s, i) ==
    IF i > Len(s) \/ s[i] \notin Whitespace THEN 0 ELSE 1 + SpaceRun(s, i + 1)

\* datetime.strptime(s, '%d.%m.%Y, %H:%M'): the fields, or ok = FALSE where
\* strptime raises ValueError (no match, unconverted data, day out of range)
Strptime(s) ==
    LET bad == [ok |-> FALSE, y |-> 0, m |-> 0, d |-> 0, H |-> 0, M |-> 0]
        p1 == Find(s, <<".">>, 1)
        p2 == IF p1 = 0 THEN 0 ELSE Find(s, <<".">>, p1 + 1)
        p3 == IF p2 = 0 THEN 0 ELSE Find(s, <<",">>, p2 + 1)
        ws == IF p3 = 0 THEN 0 ELSE SpaceRun(s, p3 + 1)
        p4 == IF ws = 0 THEN 0 ELSE Find(s, <<":">>, p3 + 1 + ws)
    IN  IF p4 = 0 THEN bad
        ELSE LET dt == SubSeq(s, 1, p1 - 1)
                 mt == SubSeq(s, p1 + 1, p2 - 1)
                 yt == SubSeq(s, p2 + 1, p3 - 1)
                 Ht == SubSeq(s, p3 + 1 + ws, p4 - 1)
                 Mt == SubSeq(s, p4 + 1, Len(s))
             IN  IF ~(MatchesDay(dt) /\ MatchesMonth(mt) /\ MatchesYear(yt)
                      /\ MatchesHour(Ht) /\ MatchesMinute(Mt))
                 THEN bad
                 ELSE LET y == IntOf(yt)
                          m == IntOf(mt)
                          d == IntOf(Strip(dt))
                      IN  IF y < 1 \/ d > DaysInMonth(y, m) THEN bad
                          ELSE [ok |-> TRUE, y |-> y, m |-> m, d |-> d,
                                H |-> IntOf(Ht), M |-> IntOf(Mt)]

\* date_obj.timestamp(), in seconds
Timestamp(t) == DaysFromCivil(t.y, t.m, t.d) * 86400 + t.H * 3600 + t.M * 60

\* n as decimal text of at least w characters, zero-filled
Pad(n, w) == IF w <= 1 THEN StrOfNat(n) ELSE
    LET t == StrOfNat(n) IN [i \in 1..(w - Len(t)) |-> "0"] \o t

\* datetime.fromtimestamp(ts).strftime('%Y-%m-%d %H:%M:%S'), ts in seconds
FormatDate(ts) ==
    LET days == ts \div 86400
        secs == ts - days * 86400
        c == CivilFromDays(days)
    IN  Pad(c.y, 4) \o <<"-">> \o Pad(c.m, 2) \o <<"-">> \o Pad(c.d, 2) \o <<" ">>
        \o Pad(secs \div 3600, 2) \o <<":">> \o Pad((secs % 3600) \div 60, 2)
        \o <<":">> \o Pad(secs % 60, 2)

---------------------------------------------------------------------------
(* The record extractor: scrape_from_page, after the browser part.         *)

\* a div of soup.find_all('div', class_=re.compile(r'^c\d+')), in document
\* order: col is the digit of its first class of the form c<digit> (NoCol
\* when it has none, as for class "c10"), text the stripped text of its
\* span.m_g_text_1 ('' without one), link its first <a> (NoLink without one)
NoCol == -1
NoLink == [nolink |-> TRUE]
Link(title, href) == [title |-> title, href |-> href]
Div(col, text, link) == [col |-> col, text |-> text, link |-> link]

Sep == <<" ", "-", " ">>
Uhr == <<" ", "U", "h", "r">>

\* int(text) if text.isdigit() else 0, where int() does not raise
IntOrZero(text) == IF IsDigitStr(text) THEN IntOf(text) ELSE 0

\* the branch of column c3: the teams from the link's title, else from the text
MapTeams(current_game, div) ==
    IF div.link # NoLink
    THEN LET title == div.link.title
             teams == Split(title, Sep)
             named == IF Contains(title, Sep)
                      THEN Put(Put(current_game, "heimMannschaft", Strip(teams[1])),
                               "gastMannschaft", Strip(teams[2]))
                      ELSE current_game
         IN  Put(named, "actionLink", div.link.href)
    ELSE Put(Put(current_game, "heimMannschaft", div.text), "gastMannschaft", <<>>)

\* the branches of columns c1..c6 (c7..c9 match none of them)
MapColumn(current_game, div) ==
    CASE div.col = 1 -> Put(current_game, "bewerb", div.text)
      [] div.col = 2 -> Put(current_game, "runde", IntOrZero(div.text))
      [] div.col = 3 -> MapTeams(current_game, div)
      [] div.col = 4 -> Put(current_game, "ergebnis", div.text)
      [] div.col = 5 -> Put(current_game, "einsatzMinuten", IntOrZero(div.text))
      [] div.col = 6 -> Put(current_game, "tore", IntOrZero(div.text))
      [] OTHER -> current_game

\* whether the previous game is appended when a c0 div starts a new one
FlushOnDate(current_game) == current_game # EmptyDict

\* whether the last game is appended after the loop
FlushAtEnd(current_game) == current_game # EmptyDict /\ "datum" \in DOMAIN current_game

RECURSIVE ScanDivs(_, _, _, _)
\* the loop over all_divs from position i on; raised when int() raises
ScanDivs(all_divs, i, current_game, acc) ==
    IF i > Len(all_divs)
    THEN [raised |-> FALSE, current_game |-> current_game, games_data |-> acc]
    ELSE LET div == all_divs[i] IN
         IF div.col = NoCol THEN ScanDivs(all_divs, i + 1, current_game, acc)
         ELSE IF div.col = 0
         THEN ScanDivs(all_divs, i + 1, [datum |-> div.text],
                       IF FlushOnDate(current_game) THEN Append(acc, current_game)
                       ELSE acc)
         ELSE IF div.col \in {2, 5, 6} /\ IsDigitStr(div.text) /\ IntRaises(div.text)
         THEN [raised |-> TRUE, current_game |-> current_game, games_data |-> acc]
         ELSE ScanDivs(all_divs, i + 1, MapColumn(current_game, div), acc)

\* a parse that marks a date text it cannot parse with -1
ParseAnstossMarked(datum_str) ==
    IF datum_str # <<>> /\ Contains(datum_str, <<".">>)
    THEN LET date_obj == Strptime(Strip(Remove(datum_str, Uhr)))
         IN  IF date_obj.ok THEN Timestamp(date_obj) ELSE -1
    ELSE -1

\* the timestamp of a game's date text, 0 when it does not parse
ParseAnstoss(datum_str) ==
    IF datum_str # <<>> /\ Contains(datum_str, <<".">>)
    THEN LET date_obj == Strptime(Strip(Remove(datum_str, Uhr)))
         IN  IF date_obj.ok THEN Timestamp(date_obj) ELSE 0
    ELSE 0

\* the second loop: the age group and the timestamp of one game
PostProcess(game) ==
    LET datum_str == Get(game, "datum", <<>>)
        bewerb == Get(game, "bewerb", <<>>)
    IN  Put(Put(game, "ageGroup", SearchAgeGroup(Upper(bewerb))),
            "anstoss", ParseAnstoss(datum_str))

\* the parsing part of scrape_from_page: the list it returns for all_divs.
\* When int() raises, the except clause keeps what was appended so far, and
\* neither the last game nor the second loop is reached.
ParseDivs(all_divs) ==
    LET scan == ScanDivs(all_divs, 1, EmptyDict, <<>>)
        flushed == IF FlushAtEnd(scan.current_game)
                   THEN Append(scan.games_data, scan.current_game)
                   ELSE scan.games_data
    IN  IF scan.raised THEN scan.games_data
        ELSE [i \in 1..Len(flushed) |-> PostProcess(flushed[i])]

\* the page as the browser part leaves it: the load failed (any exception of
\* the Selenium part), or the rendered page's matching divs
LoadFailed == [failed |-> TRUE]
Rendered(all_divs) == [divs |-> all_divs]

\* scrape_from_page's return value
ScrapeResult(pg) == IF pg = LoadFailed THEN None ELSE List(ParseDivs(pg.divs))

\* scrape_player_stats's return value for what scrape_from_page returned
StatsResult(gd) == IF Falsy(gd) THEN None ELSE [spieleAlle |-> gd.list]

---------------------------------------------------------------------------
(* The pages of the model: texts as the site shows them, in four variants  *)
(* per column, put together in chunks (whole runs c0..c6, single divs).    *)

Date1 == <<"1","5",".","1","1",".","2","0","2","5",","," ","1","1",":","3","0"," ","U","h","r">>
\* a date text that strptime rejects (31 February)
Date3 == <<"3","1",".","0","2",".","2","0","2","5",","," ","1","1",":","3","0"," ","U","h","r">>
\* a date text without the comma between date and time
Date5 == <<"1","5",".","1","1",".","2","0","2","5"," ","1","1",":","3","0"," ","U","h","r">>
\* the last day of the charts' date window
Date4 == <<"0","8",".","0","6",".","2","0","2","6",","," ","1","0",":","0","0"," ","U","h","r">>
Bewerb1 == <<"U","1","3"," ","L","i","g","a">>
Bewerb2 == <<"C","u","p"," ","u","9">>
Bewerb3 == <<"L","i","g","a">>
Title1 == <<"A"," ","-"," ","B">>
Title2 == <<"A"," ","-"," ","B"," ","-"," ","C">>
Title4 == <<"A","B">>
Href1 == <<"/","s","1">>
Href2 == <<"/","s","2">>
Erg1 == <<"1",":","0">>
Erg2 == <<"2",":","2">>

Variants == 1..5

\* variants 1 and 2 are two scrapes of the same match (the same date text)
\* that differ in the other columns; variant 3 holds what does not parse;
\* variant 4 a round text that is a digit and no decimal number; variant 5
\* an empty date, a signed round, empty minutes and a link title without
\* the separator
TextOf(c, v) ==
    CASE c = 0 -> <<Date1, Date1, Date3, Date4, <<>> >>[v]
      [] c = 1 -> <<Bewerb1, Bewerb2, Bewerb3, <<>>, Bewerb1>>[v]
      [] c = 2 -> << <<"7">>, <<"1","2">>, <<"x">>, <<"^2">>, <<"-","5">> >>[v]
      [] c = 3 -> << <<"A">>, <<"A">>, <<"A">>, <<"A","B">>, <<"A","B">> >>[v]
      [] c = 4 -> <<Erg1, Erg2, <<>>, Erg1, Erg2>>[v]
      [] c = 5 -> << <<"9","0">>, <<"6","0">>, <<"4","5","'">>, <<"0">>, <<>> >>[v]
      [] c = 6 -> << <<"1">>, <<"2">>, <<>>, <<"0">>, <<"3">> >>[v]
      [] OTHER -> <<"x">>

LinkOf(c, v) ==
    IF c # 3 THEN NoLink
    ELSE <<Link(Title1, Href1), Link(Title2, Href2), NoLink, Link(Title4, <<>>),
          Link(Title4, Href1)>>[v]

Frag(c, v) == Div(c, TextOf(c, v), LinkOf(c, v))

\* a whole run: the seven divs c0..c6 of one game
Run(v) == [k \in 1..7 |-> Frag(k - 1, v)]

\* the columns of the single divs
SingleCols == {0, 1, 3, 5, 7}

Chunks ==
    {Run(v) : v \in Variants}
    \cup {<<Frag(c, 3)>> : c \in SingleCols}
    \cup {<<Div(0, Date5, NoLink)>>}
    \cup {<<Div(NoCol, <<>>, NoLink)>>}

RECURSIVE Flatten(_)
Flatten(cs) == IF cs = <<>> THEN <<>> ELSE Head(cs) \o Flatten(Tail(cs))

ChunkSeqs == UNION {[1..n -> Chunks] : n \in 0..MaxChunks}

Pages == {LoadFailed} \cup {Rendered(Flatten(cs)) : cs \in ChunkSeqs}

---------------------------------------------------------------------------
(* The games of the model.                                                 *)

Range(sq) == {sq[i] : i \in 1..Len(sq)}

\* the games handed to save_games_to_db: what scrape_from_page returns for
\* these pages (two scrapes of one match, and a game whose date does not
\* parse)
GamePages == {Run(1), Run(2), Run(3)}
GamePool == UNION {Range(ParseDivs(d)) : d \in GamePages}
\* the record sequences handed to save_games_to_db
GameSeqs == UNION {[1..k -> GamePool] : k \in 0..MaxGames}
StoreSeqs == UNION {[1..k -> GamePool] : k \in 0..MaxStoreGames}

---------------------------------------------------------------------------
(* The store: save_player_to_db and save_games_to_db.                      *)
(* A games row holds every column but the surrogate id (which the code     *)
(* reads only to see whether a row exists) and last_updated (a wall-clock  *)
(* text that nothing reads).  SQLite does not enforce the FOREIGN KEY of   *)
(* games (the code never turns foreign_keys on); it does enforce UNIQUE.   *)

\* INSERT OR IGNORE INTO players: the row of a player_id already there stays
SavePlayerKeepFirst(tbl, player_id, info) ==
    IF player_id \in DOMAIN tbl THEN tbl ELSE Put(tbl, player_id, info)

\* INSERT OR REPLACE INTO players: one row per player_id (the PRIMARY KEY),
\* the last one
SavePlayer(tbl, player_id, info) == Put(tbl, player_id, info)

\* int(v) if str(v).isdigit() else 0, for the value of key in game ('0' when
\* the key is missing); the extractor's values are integers
DigitsOrZero(game, key) ==
    LET text == IF key \in DOMAIN game THEN StrOfInt(game[key]) ELSE <<"0">>
    IN  IF IsDigitStr(text) THEN IntOf(text) ELSE 0

\* game.get('anstoss', 0)
TimestampOf(game) == Get(game, "anstoss", 0)

\* the game_date of a timestamp: its ISO text, NULL for timestamp 0
GameDate(timestamp) == IF timestamp # 0 THEN FormatDate(timestamp) ELSE NULL

\* a lookup that finds no row
ExistingNever(tbl, player_id, timestamp) == FALSE

\* a lookup that takes timestamp 0 for "no timestamp"
ExistingNonZero(tbl, player_id, timestamp) ==
    /\ timestamp # 0
    /\ \E row \in BagToSet(tbl) :
          row.player_id = player_id /\ row.game_timestamp = timestamp

\* SELECT id FROM games WHERE player_id = ? AND game_timestamp = ?; fetchone()
Existing(tbl, player_id, timestamp) ==
    \E row \in BagToSet(tbl) :
        row.player_id = player_id /\ row.game_timestamp = timestamp

\* an UPDATE that leaves the goals column out of its SET list
UpdatedRowKeepGoals(row, game) ==
    [row EXCEPT !.competition = Get(game, "bewerb", <<>>),
                !.age_group = Get(game, "ageGroup", <<>>),
                !.round = Get(game, "runde", 0),
                !.home_team = Get(game, "heimMannschaft", <<>>),
                !.away_team = Get(game, "gastMannschaft", <<>>),
                !.result = Get(game, "ergebnis", <<>>),
                !.minutes_played = DigitsOrZero(game, "einsatzMinuten"),
                !.location = Get(game, "spielortBezeichnung", <<>>),
                !.match_link = Get(game, "actionLink", <<>>)]

\* a row the UPDATE statement's WHERE clause selects, after the update
UpdatedRow(row, game) ==
    [row EXCEPT !.competition = Get(game, "bewerb", <<>>),
                !.age_group = Get(game, "ageGroup", <<>>),
                !.round = Get(game, "runde", 0),
                !.home_team = Get(game, "heimMannschaft", <<>>),
                !.away_team = Get(game, "gastMannschaft", <<>>),
                !.result = Get(game, "ergebnis", <<>>),
                !.minutes_played = DigitsOrZero(game, "einsatzMinuten"),
                !.goals = DigitsOrZero(game, "tore"),
                !.location = Get(game, "spielortBezeichnung", <<>>),
                !.match_link = Get(game, "actionLink", <<>>)]

\* the row the INSERT statement adds
InsertedRow(player_id, game) ==
    [player_id |-> player_id,
     game_date |-> GameDate(TimestampOf(game)),
     competition |-> Get(game, "bewerb", <<>>),
     age_group |-> Get(game, "ageGroup", <<>>),
     round |-> Get(game, "runde", 0),
     home_team |-> Get(game, "heimMannschaft", <<>>),
     away_team |-> Get(game, "gastMannschaft", <<>>),
     result |-> Get(game, "ergebnis", <<>>),
     minutes_played |-> DigitsOrZero(game, "einsatzMinuten"),
     goals |-> DigitsOrZero(game, "tore"),
     location |-> Get(game, "spielortBezeichnung", <<>>),
     match_link |-> Get(game, "actionLink", <<>>),
     game_timestamp |-> TimestampOf(game)]

RECURSIVE SumCopies(_, _)
\* the number of copies in bag tbl of the rows of set S
SumCopies(S, tbl) ==
    IF S = {} THEN 0
    ELSE LET r == CHOOSE r \in S : TRUE
         IN  CopiesIn(r, tbl) + SumCopies(S \ {r}, tbl)

\* an UPDATE whose WHERE clause selects no row: the stored row stays
UpdateGamesNoRow(tbl, player_id, timestamp, game) == tbl

\* UPDATE games SET .. WHERE player_id = ? AND game_timestamp = ?
UpdateGames(tbl, player_id, timestamp, game) ==
    LET upd(r) == IF r.player_id = player_id /\ r.game_timestamp = timestamp
                  THEN UpdatedRow(r, game) ELSE r
        rows == BagToSet(tbl)
    IN  [n \in {upd(r) : r \in rows} |-> SumCopies({r \in rows : upd(r) = n}, tbl)]

\* UNIQUE(player_id, game_timestamp): the INSERT raises IntegrityError
UniqueViolation(tbl, row) ==
    \E r \in BagToSet(tbl) :
        r.player_id = row.player_id /\ r.game_timestamp = row.game_timestamp

\* INSERT OR REPLACE INTO games: the rows of the player are replaced by the
\* new row
InsertGamesReplacing(tbl, row) ==
    LET kept == {r \in BagToSet(tbl) : r.player_id # row.player_id}
    IN  [r \in kept |-> CopiesIn(r, tbl)] (+) SetToBag({row})

\* INSERT INTO games (..) VALUES (..)
InsertGames(tbl, row) == tbl (+) SetToBag({row})

RECURSIVE SaveGamesLoop(_, _, _, _, _, _)
\* the loop of save_games_to_db over games_data from position i on, inside
\* the connection's transaction; raised when a statement raises
SaveGamesLoop(tbl, player_id, gd, i, new_games, updated_games) ==
    IF i > Len(gd)
    THEN [raised |-> FALSE, games |-> tbl,
          new_games |-> new_games, updated_games |-> updated_games]
    ELSE LET game == gd[i]
             timestamp == TimestampOf(game)
         IN  IF Existing(tbl, player_id, timestamp)
             THEN SaveGamesLoop(UpdateGames(tbl, player_id, timestamp, game),
                                player_id, gd, i + 1, new_games, updated_games + 1)
             ELSE IF UniqueViolation(tbl, InsertedRow(player_id, game))
             THEN [raised |-> TRUE, games |-> tbl,
                   new_games |-> new_games, updated_games |-> updated_games]
             ELSE SaveGamesLoop(InsertGames(tbl, InsertedRow(player_id, game)),
                                player_id, gd, i + 1, new_games + 1, updated_games)

\* return updated_games, new_games
CommittedSwapped(tbl, r) ==
    IF r.raised THEN [r EXCEPT !.games = tbl]
    ELSE [r EXCEPT !.new_games = r.updated_games, !.updated_games = r.new_games]

\* save_games_to_db(player_id, games_data) on table tbl: the table after the
\* commit and the counts returned; when a statement raises, conn.commit() is
\* not reached and the table is as before
Committed(tbl, r) == IF r.raised THEN [r EXCEPT !.games = tbl] ELSE r

SaveGames(tbl, player_id, gd) ==
    Committed(tbl, SaveGamesLoop(tbl, player_id, gd, 1, 0, 0))

\* save_player_stats_to_db that looks at its data after saving the player
SavePlayerStatsPlayerFirst(ptbl, tbl, player_id, info, d) ==
    IF d = EmptyDict \/ "spieleAlle" \notin DOMAIN d
    THEN [players |-> SavePlayer(ptbl, player_id, info), games |-> tbl,
          raised |-> FALSE, new_games |-> 0, updated_games |-> 0]
    ELSE [players |-> SavePlayer(ptbl, player_id, info)]
         @@ SaveGames(tbl, player_id, d.spieleAlle)

\* save_player_stats_to_db without its save_player_to_db call
SavePlayerStatsGamesOnly(ptbl, tbl, player_id, info, d) ==
    IF d = EmptyDict \/ "spieleAlle" \notin DOMAIN d
    THEN [players |-> ptbl, games |-> tbl, raised |-> FALSE,
          new_games |-> 0, updated_games |-> 0]
    ELSE [players |-> ptbl] @@ SaveGames(tbl, player_id, d.spieleAlle)

\* save_player_stats_to_db(player_id, .., data) on the two tables: nothing
\* for data that is empty or has no 'spieleAlle'; else the player is saved
\* and committed, then the games are (when save_games_to_db raises, the
\* player stays saved)
SavePlayerStats(ptbl, tbl, player_id, info, d) ==
    IF d = EmptyDict \/ "spieleAlle" \notin DOMAIN d
    THEN [players |-> ptbl, games |-> tbl, raised |-> FALSE,
          new_games |-> 0, updated_games |-> 0]
    ELSE [players |-> SavePlayer(ptbl, player_id, info)]
         @@ SaveGames(tbl, player_id, d.spieleAlle)

---------------------------------------------------------------------------
(* The chart queries: generate_minutes_chart and generate_goals_chart of   *)
(* scrape_two_step.py, and those of scrape_two_step_clickevent-working.py. *)

WindowLo == <<"2","0","2","5","-","0","8","-","2","9">>
WindowHi == <<"2","0","2","6","-","0","6","-","0","8">>

\* g.game_date BETWEEN '2025-08-29' and '2026-06-08' (NULL is not between)
InWindowOrNull(row) ==
    \/ row.game_date = NULL
    \/ StrLeq(WindowLo, row.game_date) /\ StrLeq(row.game_date, WindowHi)

InWindow(row) ==
    /\ row.game_date # NULL
    /\ StrLeq(WindowLo, row.game_date)
    /\ StrLeq(row.game_date, WindowHi)

RECURSIVE SumColumn(_, _, _)
\* SUM(col) over the rows of set S, each with its copies in tbl
SumColumn(S, tbl, col) ==
    IF S = {} THEN 0
    ELSE LET r == CHOOSE r \in S : TRUE
         IN  r[col] * CopiesIn(r, tbl) + SumColumn(S \ {r}, tbl, col)

\* the rows of player p that players LEFT JOIN games yields and the WHERE
\* clause keeps: the games of p in the window (the all-NULL row of a player
\* without games has a NULL game_date and is not kept)
JoinedInWindow(tbl, p) == {r \in BagToSet(tbl) : r.player_id = p /\ InWindow(r)}

\* the rows of player p that the join yields without a WHERE clause
Joined(tbl, p) == {r \in BagToSet(tbl) : r.player_id = p}

\* one row of a grouped result: the name and SUM(col), NULL for a player
\* whose only joined row is the all-NULL one
ResultRow(ptbl, tbl, p, rows, col) ==
    [player_name |-> ptbl[p].player_name,
     is_null |-> rows = {},
     total |-> SumColumn(rows, tbl, col)]

\* SELECT .. WHERE g.game_date BETWEEN .. GROUP BY p.player_id, p.player_name
WindowQuery(ptbl, tbl, col) ==
    {ResultRow(ptbl, tbl, p, JoinedInWindow(tbl, p), col) :
        p \in {q \in DOMAIN ptbl : JoinedInWindow(tbl, q) # {}}}

\* HAVING SUM(g.goals) > 0
Having(rows) == {r \in rows : ~r.is_null /\ r.total > 0}

\* SELECT .. GROUP BY p.player_id, p.player_name, with no WHERE clause
FullQuery(ptbl, tbl, col) ==
    {ResultRow(ptbl, tbl, p, Joined(tbl, p), col) : p \in DOMAIN ptbl}

\* the sort key of a total: NULL sorts below every number
SortKey(r) == IF r.is_null THEN -1 ELSE r.total

\* ORDER BY total DESC (ASC): the orders of the rows the statement may return
Ordered(rows, desc) ==
    {sq \in [1..Cardinality(rows) -> rows] :
        /\ \A i, j \in 1..Cardinality(rows) : i # j => sq[i] # sq[j]
        /\ \A i, j \in 1..Cardinality(rows) :
              i < j => IF desc THEN SortKey(sq[i]) >= SortKey(sq[j])
                               ELSE SortKey(sq[i]) <= SortKey(sq[j])}

\* the data handed to barh: None when there are no results, else the names
\* with `row[1] if row[1] else 0`
ChartInput(results) ==
    IF results = <<>> THEN None
    ELSE List([i \in 1..Len(results) |->
                 [player_name |-> results[i].player_name,
                  value |-> IF results[i].is_null \/ results[i].total = 0
                            THEN 0 ELSE results[i].total]])

---------------------------------------------------------------------------
(* The store's operations as actions.                                      *)

PlayerIds == {1, 2}

\* what the roster may say of a player, in two editions
PlayerInfo(p, k) ==
    [player_name |-> <<"P", DigitChars[p + 1], DigitChars[k + 1]>>,
     team |-> <<"U", "1", DigitChars[k + 3]>>,
     season_year |-> 2025 + k]
Editions == {1, 2}

NoOp == [op |-> "none"]

\* the store as init_database leaves it
InitStore ==
    /\ players = EmptyDict
    /\ games = EmptyBag
    /\ last = NoOp
    /\ writers = <<>>

SavePlayerToDb(p, k) ==
    /\ players' = SavePlayer(players, p, PlayerInfo(p, k))
    /\ last' = [op |-> "save_player", player_id |-> p, info |-> PlayerInfo(p, k)]
    /\ UNCHANGED <<games, scrapeVars, writers>>

\* The arguments of the call before, when that was a save_games_to_db too.
SameCall(p, gd) ==
    last.op = "save_games" /\ last.player_id = p /\ last.games_data = gd

\* save_games_to_db(p, gd); last records the call, what it returned or that it
\* raised, and whether the call before it had the same arguments
SaveGamesToDb(p, gd) ==
    \E r \in {SaveGames(games, p, gd)} :
        /\ games' = r.games
        /\ last' = [op |-> "save_games", player_id |-> p, games_data |-> gd,
                    raised |-> r.raised, new_games |-> r.new_games,
                    updated_games |-> r.updated_games,
                    again |-> SameCall(p, gd)]
        /\ UNCHANGED <<players, scrapeVars, writers>>

\* what save_player_stats_to_db may be handed as data: None, a dict without
\* 'spieleAlle', or no game or one game under 'spieleAlle'
StatsData ==
    {None, [error |-> <<"n", "o">>], [spieleAlle |-> <<>>]}
    \cup {[spieleAlle |-> <<game>>] : game \in GamePool}

\* save_player_stats_to_db(p, name, team, year, d)
SavePlayerStatsToDb(p, k, d) ==
    \E r \in {SavePlayerStats(players, games, p, PlayerInfo(p, k), d)} :
        /\ players' = r.players
        /\ games' = r.games
        /\ last' = [op |-> "save_player_stats", player_id |-> p,
                    info |-> PlayerInfo(p, k), data |-> d, raised |-> r.raised, new_games |-> r.new_games,
                    updated_games |-> r.updated_games]
        /\ UNCHANGED <<scrapeVars, writers>>

GenerateMinutesChart ==
    /\ \E results \in Ordered(WindowQuery(players, games, "minutes_played"), TRUE) :
          last' = [op |-> "minutes_chart", chart |-> ChartInput(results)]
    /\ UNCHANGED <<players, games, scrapeVars, writers>>

GenerateGoalsChart ==
    /\ \E results \in Ordered(Having(WindowQuery(players, games, "goals")), TRUE) :
          last' = [op |-> "goals_chart", chart |-> ChartInput(results)]
    /\ UNCHANGED <<players, games, scrapeVars, writers>>

\* generate_minutes_chart of scrape_two_step_clickevent-working.py
GenerateMinutesChartClickevent ==
    /\ \E results \in Ordered(FullQuery(players, games, "minutes_played"), TRUE) :
          last' = [op |-> "minutes_chart_clickevent", chart |-> ChartInput(results)]
    /\ UNCHANGED <<players, games, scrapeVars, writers>>

\* generate_goals_chart of scrape_two_step_clickevent-working.py
GenerateGoalsChartClickevent ==
    /\ \E results \in Ordered(FullQuery(players, games, "goals"), FALSE) :
          last' = [op |-> "goals_chart_clickevent", chart |-> ChartInput(results)]
    /\ UNCHANGED <<players, games, scrapeVars, writers>>

\* the scrape variables of a run in which nothing is scraped
IdleScrape ==
    /\ page = LoadFailed
    /\ games_data = None
    /\ data = None
    /\ pc = "start"
    /\ attempted = <<>>
    /\ session = <<>>

InitStoreSpec == InitStore /\ IdleScrape

NextStore ==
    \/ \E p \in PlayerIds, k \in Editions : SavePlayerToDb(p, k)
    \/ \E p \in PlayerIds, gd \in StoreSeqs : SaveGamesToDb(p, gd)
    \/ \E p \in PlayerIds, k \in Editions, d \in StatsData : SavePlayerStatsToDb(p, k, d)
    \/ GenerateMinutesChart
    \/ GenerateGoalsChart
    \/ GenerateMinutesChartClickevent
    \/ GenerateGoalsChartClickevent

SpecStore == InitStoreSpec /\ [][NextStore]_vars

\* the games table alone, under save_games_to_db
\* the number of records of a call in which every date is unparsed
MaxCollide == 2

\* a whole run of variant v with another date text
RunWithDate(v, date) == [Run(v) EXCEPT ![1] = Div(0, date, NoLink)]

\* pages of one game each whose date the extractor cannot parse: 31
\* February, no comma between date and time, no date text at all
UnparsedPages ==
    {Run(3), RunWithDate(1, Date3), RunWithDate(2, Date5), RunWithDate(2, <<>>)}

\* the records the extractor makes of them: distinct matches
UnparsedPool == UNION {Range(ParseDivs(d)) : d \in UnparsedPages}

UnparsedSeqs == UNION {[1..k -> UnparsedPool] : k \in 0..MaxCollide}

\* save_games_to_db calls with such records only
NextCollide == \E p \in PlayerIds, gd \in UnparsedSeqs : SaveGamesToDb(p, gd)

SpecCollide == InitStoreSpec /\ [][NextCollide]_vars

\* games with a date in the charts' window and games without a parsed date
\* that have minutes and goals
NoDatePool ==
    UNION {Range(ParseDivs(d)) :
              d \in {Run(1), Run(2), RunWithDate(1, Date3), RunWithDate(2, Date5)}}

\* players saved, games saved one at a time, and the charts of
\* scrape_two_step.py
NextNoDate ==
    \/ \E p \in PlayerIds : SavePlayerToDb(p, 1)
    \/ \E p \in PlayerIds, game \in NoDatePool : SaveGamesToDb(p, <<game>>)
    \/ GenerateMinutesChart
    \/ GenerateGoalsChart

SpecNoDate == InitStoreSpec /\ [][NextNoDate]_vars

\* only save_player_stats_to_db calls, from the empty store
NextStats ==
    \E p \in PlayerIds, k \in Editions, d \in StatsData : SavePlayerStatsToDb(p, k, d)

SpecStats == InitStoreSpec /\ [][NextStats]_vars

NextGames == \E p \in PlayerIds, gd \in GameSeqs : SaveGamesToDb(p, gd)

SpecGames == InitStoreSpec /\ [][NextGames]_vars

---------------------------------------------------------------------------
(* save_games_to_db executions side by side, for different players.  Each  *)
(* call opens its own connection (sqlite3.connect with the default 5 s     *)
(* timeout); a connection's first INSERT or UPDATE opens its transaction   *)
(* and takes the database's write lock, which it keeps until its commit.   *)
(* A SELECT of another connection reads the committed table meanwhile; a   *)
(* write of another connection waits for the lock and raises               *)
(* OperationalError ('database is locked') when the wait times out.        *)

\* the number of records of an execution
MaxWriterGames == 2

\* the executions; execution w saves the games of player w
WriterIds == {1, 2}

WriterSeqs == UNION {[1..k -> GamePool] : k \in 0..MaxWriterGames}

\* the committed games table when the executions start: empty, or a row for
\* each player under the key of the pool's first game
StartTables ==
    {EmptyBag,
     SaveGames(SaveGames(EmptyBag, 1, ParseDivs(Run(1))).games,
               2, ParseDivs(Run(1))).games}

\* conn = sqlite3.connect(db_path); new_games = 0; updated_games = 0
NewWriter(gd, tbl) ==
    [games_data |-> gd, before |-> tbl, pc |-> "select", i |-> 1,
     existing |-> FALSE, tx |-> FALSE, tbl |-> EmptyBag,
     new_games |-> 0, updated_games |-> 0]

OtherHoldsLock(w) == \E v \in WriterIds \ {w} : writers[v].tx

\* what the connection of w reads: its own uncommitted table inside its
\* transaction, else the committed one
View(w) == IF writers[w].tx THEN writers[w].tbl ELSE games

\* for game in games_data: .. SELECT id FROM games WHERE ..; fetchone()
SelectExisting(w) ==
    /\ writers[w].pc = "select"
    /\ LET st == writers[w]
       IN  writers' =
             IF st.i > Len(st.games_data)
             THEN [writers EXCEPT ![w].pc = "commit"]
             ELSE [writers EXCEPT
                     ![w].existing =
                         Existing(View(w), w, TimestampOf(st.games_data[st.i])),
                     ![w].pc = "write"]
    /\ UNCHANGED <<players, games, last, scrapeVars>>

\* if existing: UPDATE .. else: INSERT .., with the write lock free or held
\* by this connection
WriteGame(w) ==
    /\ writers[w].pc = "write"
    /\ ~OtherHoldsLock(w)
    /\ LET st == writers[w]
           game == st.games_data[st.i]
           view == View(w)
       IN  writers' =
             IF st.existing
             THEN [writers EXCEPT
                     ![w].tbl = UpdateGames(view, w, TimestampOf(game), game),
                     ![w].tx = TRUE,
                     ![w].updated_games = st.updated_games + 1,
                     ![w].i = st.i + 1, ![w].pc = "select"]
             ELSE IF UniqueViolation(view, InsertedRow(w, game))
             THEN [writers EXCEPT ![w].tx = FALSE, ![w].pc = "raised"]
             ELSE [writers EXCEPT
                     ![w].tbl = InsertGames(view, InsertedRow(w, game)),
                     ![w].tx = TRUE,
                     ![w].new_games = st.new_games + 1,
                     ![w].i = st.i + 1, ![w].pc = "select"]
    /\ UNCHANGED <<players, games, last, scrapeVars>>

\* the first write of a connection while another connection holds the write
\* lock, and the lock is not released within the timeout: cursor.execute
\* raises OperationalError, which save_games_to_db does not catch
BusyTimeout(w) ==
    /\ writers[w].pc = "write"
    /\ OtherHoldsLock(w)
    /\ writers' = [writers EXCEPT ![w].pc = "raised"]
    /\ UNCHANGED <<players, games, last, scrapeVars>>

\* conn.commit(); conn.close(); return new_games, updated_games
CommitGames(w) ==
    /\ writers[w].pc = "commit"
    /\ games' = View(w)
    /\ writers' = [writers EXCEPT ![w].tx = FALSE, ![w].pc = "done"]
    /\ UNCHANGED <<players, last, scrapeVars>>

\* a storage error that leaves what the transaction wrote in the table (as
\* a connection in autocommit mode would)
StorageErrorKeepingWrites(w) ==
    /\ writers[w].pc \in {"select", "write"}
    /\ writers[w].i <= Len(writers[w].games_data)
    /\ games' = View(w)
    /\ writers' = [writers EXCEPT ![w].tx = FALSE, ![w].pc = "raised"]
    /\ UNCHANGED <<players, last, scrapeVars>>

\* cursor.execute raises at the record in hand (disk I/O error, disk full,
\* a constraint): the exception leaves save_games_to_db before
\* conn.commit(), and the connection goes with its transaction open, which
\* rolls it back
StorageError(w) ==
    /\ writers[w].pc \in {"select", "write"}
    /\ writers[w].i <= Len(writers[w].games_data)
    /\ writers' = [writers EXCEPT ![w].tx = FALSE, ![w].pc = "raised"]
    /\ UNCHANGED <<players, games, last, scrapeVars>>

InitWriters ==
    /\ players = EmptyDict
    /\ last = NoOp
    /\ IdleScrape
    /\ games \in StartTables
    /\ \E gd1, gd2 \in WriterSeqs :
          writers = [w \in WriterIds |->
                        NewWriter(IF w = 1 THEN gd1 ELSE gd2, games)]

NextWriters ==
    \E w \in WriterIds :
        \/ SelectExisting(w)
        \/ WriteGame(w)
        \/ BusyTimeout(w)
        \/ CommitGames(w)

SpecWriters == InitWriters /\ [][NextWriters]_vars

\* the same executions on storage that can fail
NextFaulty ==
    \/ NextWriters
    \/ \E w \in WriterIds : StorageError(w)

SpecFaulty == InitWriters /\ [][NextFaulty]_vars

---------------------------------------------------------------------------
(* Scraping one player: scrape_player_stats.                               *)

InitScrape ==
    /\ page \in Pages
    /\ games_data = None
    /\ data = None
    /\ pc = "start"
    /\ attempted = <<>>
    /\ session = <<>>
    /\ InitStore

\* games_data = scrape_from_page(player_id, team, year)
ScrapeFromPage ==
    /\ pc = "start"
    /\ games_data' = ScrapeResult(page)
    /\ pc' = "scraped"
    /\ UNCHANGED <<page, data, attempted, session, storeVars>>

\* the rest of scrape_player_stats: None for nothing, else {'spieleAlle': ..}
ScrapePlayerStats ==
    /\ pc = "scraped"
    /\ data' = StatsResult(games_data)
    /\ pc' = "done"
    /\ UNCHANGED <<page, games_data, attempted, session, storeVars>>

NextScrape == ScrapeFromPage \/ ScrapePlayerStats

SpecScrape == InitScrape /\ [][NextScrape]_vars

---------------------------------------------------------------------------
(* The browser session of scrape_from_page, step by step: every step waits *)
(* for the site and ends by itself (the waits have timeouts).              *)

\* what the rendered page can hold when its markup is captured
LoadDivs ==
    {<<>>, Run(1) \o Run(2)} \cup {Run(v) : v \in Variants}

\* the selectors of cookie_selectors, by position
CookieSelectors == 1..3

ConsentOutcomes ==
    {<<"consent_accepted", i>> : i \in CookieSelectors} \cup {<<"consent_timeout">>}

TriggerOutcomes ==
    {<<"trigger_clicked">>, <<"trigger_timeout", "fallback_clicked">>,
     <<"trigger_timeout">>}

\* except Exception as e: .. driver.quit(); return None
SessionFails(step) ==
    /\ session' = Append(session, <<step, "raised">>)
    /\ page' = LoadFailed
    /\ games_data' = None
    /\ pc' = "scraped"

SessionGoesOn(outcome, next) ==
    /\ session' = Append(session, outcome)
    /\ pc' = next
    /\ UNCHANGED <<page, games_data>>

\* webdriver.Firefox(..); driver.get(url); the wait for the body
OpenPage ==
    /\ pc = "start"
    /\ \/ SessionGoesOn(<<"opened">>, "consent")
       \/ SessionFails("open")
    /\ UNCHANGED <<data, attempted, storeVars>>

\* a cookie step in which every selector's timeout ends the session
AcceptCookiesOrAbort ==
    /\ pc = "consent"
    /\ \E o \in ConsentOutcomes :
          IF o = <<"consent_timeout">>
          THEN SessionFails("consent_timeout")
          ELSE SessionGoesOn(o, "scroll")
    /\ UNCHANGED <<data, attempted, storeVars>>

\* the cookie consent step: the first selector whose button becomes
\* clickable within 3 s is clicked; a selector that times out (or whose
\* click raises) is passed over, and so is the whole step
AcceptCookies ==
    /\ pc = "consent"
    /\ \E o \in ConsentOutcomes : SessionGoesOn(o, "scroll")
    /\ UNCHANGED <<data, attempted, storeVars>>

\* driver.execute_script("window.scrollTo(..)")
ScrollPage ==
    /\ pc = "scroll"
    /\ \/ SessionGoesOn(<<"scrolled">>, "trigger")
       \/ SessionFails("scroll")
    /\ UNCHANGED <<data, attempted, storeVars>>

\* the season's trigger link: clicked when it becomes clickable within 5 s;
\* else every .open_close_url_1 element is clicked, and what raises there is
\* passed over
ClickTrigger ==
    /\ pc = "trigger"
    /\ \E o \in TriggerOutcomes : SessionGoesOn(o, "capture")
    /\ UNCHANGED <<data, attempted, storeVars>>

\* htmlResult = driver.execute_script("return ..innerHTML"); driver.quit();
\* then the rendered markup is parsed
CaptureMarkup ==
    /\ pc = "capture"
    /\ \/ \E all_divs \in LoadDivs :
             /\ session' = Append(session, <<"captured">>)
             /\ page' = Rendered(all_divs)
             /\ games_data' = ScrapeResult(Rendered(all_divs))
             /\ pc' = "scraped"
       \/ SessionFails("capture")
    /\ UNCHANGED <<data, attempted, storeVars>>

InitLoad == InitStore /\ IdleScrape

NextLoad ==
    \/ OpenPage
    \/ AcceptCookies
    \/ ScrollPage
    \/ ClickTrigger
    \/ CaptureMarkup
    \/ ScrapePlayerStats

SpecLoad == InitLoad /\ [][NextLoad]_vars

---------------------------------------------------------------------------
(* The JSON path: fetch_json_data, the same in both files.                 *)

\* requests.get raised (no connection, timeout, too many redirects)
RequestFailed == [request_failed |-> TRUE]
\* a response: its status code and its body, a JSON document or text that
\* is none
Response(status, body) == [status |-> status, body |-> body]
Malformed == [malformed |-> TRUE]
Json(value) == [json |-> value]

Statuses == {200, 404, 500, 503}
Bodies ==
    {Json([spieleAlle |-> gd]) : gd \in GameSeqs}
    \cup {Json([error |-> <<"n", "o">>]), Malformed}
Responses == {RequestFailed} \cup {Response(st, b) : st \in Statuses, b \in Bodies}

\* fetch_json_data's return value: response.json() of any response that has
\* one (raise_for_status is commented out), None when requests.get or
\* response.json() raises
FetchResult(resp) ==
    IF resp = RequestFailed THEN None
    ELSE IF resp.body = Malformed THEN None
    ELSE resp.body.json

InitFetch ==
    /\ page \in Responses
    /\ games_data = None
    /\ data = None
    /\ pc = "start"
    /\ attempted = <<>>
    /\ session = <<>>
    /\ InitStore

\* data = fetch_json_data(player_id, team, year)
FetchJsonData ==
    /\ pc = "start"
    /\ data' = FetchResult(page)
    /\ pc' = "done"
    /\ UNCHANGED <<page, games_data, attempted, session, storeVars>>

NextFetch == FetchJsonData

SpecFetch == InitFetch /\ [][NextFetch]_vars

---------------------------------------------------------------------------
(* The end-to-end run: the loop of __main__ over the roster.               *)

\* the roster, by player id; the loop passes each player's name, team, year
Roster == <<1, 2, 3>>

\* what the site may deliver for a player: no page, a page with no matching
\* div, or the page of one game
BatchPages ==
    {LoadFailed, Rendered(<<>>)} \cup {Rendered(Run(v)) : v \in Variants}

\* print_player_stats's return value for what scrape_player_stats returned
PrintResult(d) == IF d = EmptyDict \/ "spieleAlle" \notin DOMAIN d THEN None ELSE d

\* a loop that ends when a player's page fails to load
AttemptPlayerOrAbort ==
    /\ pc \in {"start", "next"}
    /\ Len(attempted) < Len(Roster)
    /\ \E pg \in BatchPages :
          /\ page' = pg
          /\ games_data' = ScrapeResult(pg)
          /\ data' = PrintResult(StatsResult(ScrapeResult(pg)))
          /\ pc' = IF pg = LoadFailed THEN "aborted" ELSE "fetched"
    /\ attempted' = Append(attempted, Roster[Len(attempted) + 1])
    /\ UNCHANGED <<session, storeVars>>

\* data = print_player_stats(..) for the next player of the roster: the
\* scrape, whatever the site delivers
AttemptPlayer ==
    /\ pc \in {"start", "next"}
    /\ Len(attempted) < Len(Roster)
    /\ \E pg \in BatchPages :
          /\ page' = pg
          /\ games_data' = ScrapeResult(pg)
          /\ data' = PrintResult(StatsResult(ScrapeResult(pg)))
    /\ attempted' = Append(attempted, Roster[Len(attempted) + 1])
    /\ pc' = "fetched"
    /\ UNCHANGED <<session, storeVars>>

\* if data: save_player_stats_to_db(.., data)
SaveAttempted ==
    /\ pc = "fetched"
    /\ IF IsNone(data) \/ data = EmptyDict
       THEN UNCHANGED storeVars
       ELSE \E r \in {SavePlayerStats(players, games, attempted[Len(attempted)],
                                      PlayerInfo(attempted[Len(attempted)], 1), data)} :
               /\ players' = r.players
               /\ games' = r.games
               /\ last' = [op |-> "save_player_stats",
                           player_id |-> attempted[Len(attempted)],
                           info |-> PlayerInfo(attempted[Len(attempted)], 1),
                           data |-> data,
                           raised |-> r.raised, new_games |-> r.new_games,
                           updated_games |-> r.updated_games]
    /\ pc' = "next"
    /\ UNCHANGED <<page, games_data, data, attempted, session, writers>>

InitBatch == InitStore /\ IdleScrape

NextBatch == AttemptPlayer \/ SaveAttempted

\* the program runs on: every call of the loop returns (the waits of the
\* browser part have timeouts)
SpecBatch == InitBatch /\ [][NextBatch]_vars /\ WF_vars(NextBatch)

\* the run over the roster, and save_player_stats_to_db called by another
\* caller on whatever data
NextRun ==
    \/ NextBatch
    \/ \E p \in PlayerIds, d \in StatsData : SavePlayerStatsToDb(p, 1, d)

SpecRun == InitBatch /\ [][NextRun]_vars

---------------------------------------------------------------------------
(* The upsert of save_games_to_db, under SpecGames.                        *)

\* the rows of tbl stored under the key (p, ts), and how many there are
RowsAt(tbl, p, ts) ==
    {r \in BagToSet(tbl) : r.player_id = p /\ r.game_timestamp = ts}
CountAt(tbl, p, ts) == SumCopies(RowsAt(tbl, p, ts), tbl)

\* the last record of gd with timestamp ts
LastAt(gd, ts) ==
    gd[CHOOSE i \in 1..Len(gd) :
          /\ TimestampOf(gd[i]) = ts
          /\ \A j \in (i + 1)..Len(gd) : TimestampOf(gd[j]) # ts]

\* the value a record gives to each column of its row
RowOf(p, game) ==
    [player_id |-> p,
     game_date |-> IF game.anstoss = 0 THEN NULL ELSE FormatDate(game.anstoss),
     competition |-> game.bewerb, age_group |-> game.ageGroup,
     round |-> game.runde, home_team |-> game.heimMannschaft,
     away_team |-> game.gastMannschaft, result |-> game.ergebnis,
     minutes_played |-> game.einsatzMinuten, goals |-> game.tore,
     location |-> <<>>, match_link |-> Get(game, "actionLink", <<>>),
     game_timestamp |-> game.anstoss]

OneRowPerKey ==
    \A r \in BagToSet(games) :
        CountAt(games, r.player_id, r.game_timestamp) = 1

\* a step of save_games_to_db: every record of the call whose key had a row
\* before the call leaves the number of rows under that key as it was
ReingestAddsNoRow ==
    last'.op = "save_games" =>
        /\ ~last'.raised
        /\ \A i \in 1..Len(last'.games_data) :
              LET ts == TimestampOf(last'.games_data[i])
              IN  CountAt(games, last'.player_id, ts) > 0 =>
                     /\ CountAt(games', last'.player_id, ts) = 1
                     /\ last'.updated_games > 0

\* C1: after any sequence of save_games_to_db calls the games table holds at
\* most one row per (player_id, game_timestamp), timestamp 0 included, and a
\* call that brings a record whose key already has a row returns normally
\* and leaves one row under that key.
C1_OneRowPerKey == [](OneRowPerKey) /\ [][ReingestAddsNoRow]_vars

\* a call has re-ingested a record with timestamp 0 and one with a parsed
\* timestamp for a player who had rows under both keys
C1_Witness ==
    /\ last.op = "save_games"
    /\ last.updated_games >= 2
    /\ \E i, j \in 1..Len(last.games_data) :
          /\ TimestampOf(last.games_data[i]) = 0
          /\ TimestampOf(last.games_data[j]) # 0
    /\ CountAt(games, last.player_id, 0) = 1

\* C2: a save_games_to_db call with the arguments of the call before it
\* returns normally with zero new rows and leaves the number of games rows
\* as it was after the first call.
C2_UpsertIdempotent ==
    [][(last'.op = "save_games" /\ last'.again) =>
          /\ ~last'.raised
          /\ last'.new_games = 0
          /\ BagCardinality(games') = BagCardinality(games)]_vars

\* the second of two calls with the same sequence of MaxGames records, the
\* first of which had inserted rows
C2_Witness ==
    /\ last.op = "save_games"
    /\ last.again
    /\ Len(last.games_data) = MaxGames
    /\ last.updated_games = MaxGames
    /\ BagCardinality(games) >= 2

\* C3: after a save_games_to_db call, the one row under the key of each
\* record of the call carries, in every column, the values of the last
\* record of the call with that key, whether the row was there before the
\* call or not.
C3_UpsertMerge ==
    (last.op = "save_games" /\ ~last.raised) =>
        \A i \in 1..Len(last.games_data) :
            LET ts == TimestampOf(last.games_data[i])
            IN  RowsAt(games, last.player_id, ts)
                    = {RowOf(last.player_id, LastAt(last.games_data, ts))}

\* two records that share a key and differ in goals were persisted in
\* sequence: the row was updated and holds the goals of the second
C3_Witness ==
    /\ last.op = "save_games"
    /\ last.updated_games > 0
    /\ \E i, j \in 1..Len(last.games_data) :
          /\ i < j
          /\ TimestampOf(last.games_data[i]) = TimestampOf(last.games_data[j])
          /\ last.games_data[i].tore # last.games_data[j].tore
          /\ \E r \in RowsAt(games, last.player_id, TimestampOf(last.games_data[j])) :
                r.goals = last.games_data[j].tore

---------------------------------------------------------------------------
(* The extractor, under SpecScrape.                                        *)

\* scrape_from_page has returned a list
Scraped == pc # "start" /\ ~IsNone(games_data)

\* C4: whatever the order of the column-tagged fragments, no record of the
\* list scrape_from_page returns is without its date field.
C4_NoRecordWithoutDate ==
    Scraped => \A i \in 1..Len(games_data.list) :
                   "datum" \in DOMAIN games_data.list[i]

\* all_divs is n whole runs: columns 0 to 6, n times over
WholeRuns(divs) ==
    /\ Len(divs) % 7 = 0
    /\ \A k \in 1..Len(divs) : divs[k].col = (k - 1) % 7

\* the record carries the texts of the run's date, competition and result
\* columns and has a value for each of the other columns
CarriesRun(game, run) ==
    /\ {"datum", "bewerb", "runde", "heimMannschaft", "gastMannschaft",
        "ergebnis", "einsatzMinuten", "tore"} \subseteq DOMAIN game
    /\ game.datum = run[1].text
    /\ game.bewerb = run[2].text
    /\ game.ergebnis = run[5].text

\* C5: a page of n whole runs yields exactly n records, the i-th carrying
\* the fields of the i-th run.
C5_OneRecordPerRun ==
    (Scraped /\ page # LoadFailed /\ WholeRuns(page.divs)) =>
        /\ Len(games_data.list) * 7 = Len(page.divs)
        /\ \A i \in 1..Len(games_data.list) :
              CarriesRun(games_data.list[i], SubSeq(page.divs, 7 * i - 6, 7 * i))

\* the same for runs whose number columns hold decimal digits or no digits
\* and whose teams column has no link or a title with the separator: what
\* the extractor does keep of the claim
DecimalRuns(divs) ==
    \A k \in 1..Len(divs) :
        /\ divs[k].col \in {2, 5, 6} =>
              \A j \in 1..Len(divs[k].text) : divs[k].text[j] \notin OtherDigits
        /\ divs[k].col = 3 =>
              divs[k].link = NoLink \/ Contains(divs[k].link.title, Sep)

OneRecordPerDecimalRun ==
    (Scraped /\ page # LoadFailed /\ WholeRuns(page.divs) /\ DecimalRuns(page.divs)) =>
        /\ Len(games_data.list) * 7 = Len(page.divs)
        /\ \A i \in 1..Len(games_data.list) :
              CarriesRun(games_data.list[i], SubSeq(page.divs, 7 * i - 6, 7 * i))

\* the positions k such that all_divs is whole runs up to k and, after k, a
\* non-empty rest of column 1..6 fragments: a trailing run without column 0
TrailingCuts(divs) ==
    {k \in 0..(Len(divs) - 1) :
        /\ WholeRuns(SubSeq(divs, 1, k))
        /\ \A j \in (k + 1)..Len(divs) : divs[j].col \in 1..6}

\* C6: a trailing run without a column-0 fragment is dropped: the page
\* yields the records that the runs before it yield by themselves.
C6_TrailingRunDropped ==
    (Scraped /\ page # LoadFailed) =>
        \A k \in TrailingCuts(page.divs) :
            games_data = ScrapeResult(Rendered(SubSeq(page.divs, 1, k)))

\* C9: a rendered page with no matching fragment yields the empty list at
\* scrape_from_page, and scrape_player_stats does not return for it what it
\* returns for a page that failed to load.
C9_EmptyIsNotFailure ==
    (page # LoadFailed /\ page.divs = <<>>) =>
        /\ pc # "start" => games_data = List(<<>>)
        /\ pc = "done" => data # StatsResult(ScrapeResult(LoadFailed))

\* the text of title before its first " - ", and all of it after
BeforeFirst(title) == SubSeq(title, 1, Find(title, Sep, 1) - 1)
AfterFirst(title) == SubSeq(title, Find(title, Sep, 1) + Len(Sep), Len(title))

\* C10: for a run whose column-3 link title contains " - ", the home team is
\* the title's text before the first " - " and the away team all of the
\* text after it.
C10_SplitOnFirstSeparator ==
    (Scraped /\ page # LoadFailed /\ Len(page.divs) = 7 /\ WholeRuns(page.divs)
       /\ page.divs[4].link # NoLink /\ Contains(page.divs[4].link.title, Sep)) =>
        /\ Len(games_data.list) = 1
        /\ games_data.list[1].heimMannschaft = BeforeFirst(page.divs[4].link.title)
        /\ games_data.list[1].gastMannschaft = AfterFirst(page.divs[4].link.title)

\* the page is one whole run whose teams column has no link, or a link whose
\* title has no " - "
UnparsedTeams(divs) ==
    /\ Len(divs) = 7
    /\ WholeRuns(divs)
    /\ divs[4].link = NoLink \/ ~Contains(divs[4].link.title, Sep)

\* C11: the record of a run whose teams cannot be parsed from a link title
\* has the fragment's visible text as its home team and the empty string as
\* its away team.
C11_TeamsFallBackToText ==
    (Scraped /\ page # LoadFailed /\ UnparsedTeams(page.divs)
       /\ Len(games_data.list) = 1) =>
        /\ {"heimMannschaft", "gastMannschaft"} \subseteq DOMAIN games_data.list[1]
        /\ games_data.list[1].heimMannschaft = page.divs[4].text
        /\ games_data.list[1].gastMannschaft = <<>>

\* the same for a teams column without a link: the part of the claim the
\* extractor keeps
TeamsFallBackToTextNoLink ==
    (Scraped /\ page # LoadFailed /\ UnparsedTeams(page.divs)
       /\ page.divs[4].link = NoLink /\ Len(games_data.list) = 1) =>
        /\ games_data.list[1].heimMannschaft = page.divs[4].text
        /\ games_data.list[1].gastMannschaft = <<>>

\* text is one or more decimal digits
DecimalText(text) ==
    Len(text) > 0 /\ \A j \in 1..Len(text) : text[j] \in DecimalDigits

\* text holds a character that is no digit, or is empty
NoDigitText(text) ==
    Len(text) = 0 \/ \E j \in 1..Len(text) : text[j] \notin DecimalDigits \cup OtherDigits

\* the number column of a record holds the value of its text
ParsedAs(game, key, text) ==
    /\ key \in DOMAIN game
    /\ DecimalText(text) => game[key] = IntOf(text)
    /\ NoDigitText(text) => game[key] = 0

\* the page is one whole run
OneRun(divs) == Len(divs) = 7 /\ WholeRuns(divs)

\* C12: the round, minutes and goals texts of a run parse to their integer
\* value when they are digits and to 0 otherwise, and the parse does not
\* fail: the run's record is there with the three numbers.
C12_NumbersParse ==
    (Scraped /\ page # LoadFailed /\ OneRun(page.divs)) =>
        /\ Len(games_data.list) = 1
        /\ ParsedAs(games_data.list[1], "runde", page.divs[3].text)
        /\ ParsedAs(games_data.list[1], "einsatzMinuten", page.divs[6].text)
        /\ ParsedAs(games_data.list[1], "tore", page.divs[7].text)

\* the same for texts that are decimal digits or hold a character that is
\* no digit: the part of the claim the extractor keeps
NumbersParseOutsideOtherDigits ==
    (Scraped /\ page # LoadFailed /\ OneRun(page.divs)
       /\ \A k \in {3, 6, 7} :
             DecimalText(page.divs[k].text) \/ NoDigitText(page.divs[k].text)) =>
        /\ Len(games_data.list) = 1
        /\ ParsedAs(games_data.list[1], "runde", page.divs[3].text)
        /\ ParsedAs(games_data.list[1], "einsatzMinuten", page.divs[6].text)
        /\ ParsedAs(games_data.list[1], "tore", page.divs[7].text)

\* strptime does not parse the date text: it is empty, has no '.', or does
\* not match '%d.%m.%Y, %H:%M' once ' Uhr' is removed
Unparsable(datum_str) ==
    \/ datum_str = <<>>
    \/ ~Contains(datum_str, <<".">>)
    \/ ~Strptime(Strip(Remove(datum_str, Uhr))).ok

\* all_divs with the text of every date column replaced by datum_str
WithDates(divs, datum_str) ==
    [k \in 1..Len(divs) |->
        IF divs[k].col = 0 THEN [divs[k] EXCEPT !.text = datum_str] ELSE divs[k]]

\* C13: every emitted record whose date text does not parse has timestamp 0
\* (as its readers take it, game.get('anstoss', 0)), and the page yields as
\* many records as it does with every date text replaced by one that parses.
C13_UnparsedDateIsZero ==
    (Scraped /\ page # LoadFailed) =>
        /\ \A i \in 1..Len(games_data.list) :
              Unparsable(Get(games_data.list[i], "datum", <<>>)) =>
                  TimestampOf(games_data.list[i]) = 0
        /\ Len(games_data.list) = Len(ParseDivs(WithDates(page.divs, Date1)))

\* a page gave a record for each of the date texts that do not parse (31
\* February, no comma, empty) with timestamp 0
C13_Witness ==
    /\ Scraped
    /\ Len(games_data.list) = 3
    /\ \A d \in {Date3, Date5, <<>>} :
          \E i \in 1..3 :
              /\ {"datum", "anstoss"} \subseteq DOMAIN games_data.list[i]
              /\ games_data.list[i].datum = d
              /\ games_data.list[i].anstoss = 0

---------------------------------------------------------------------------
(* The charts, under SpecStore.                                            *)

\* the chart data has an entry for the stored player p
Charted(chart, p) ==
    /\ ~IsNone(chart)
    /\ \E i \in 1..Len(chart.list) :
          /\ chart.list[i].player_name = players[p].player_name
          /\ (\A r \in BagToSet(games) : r.player_id # p) =>
                chart.list[i].value = 0

\* C7: the data generate_minutes_chart hands to the chart has an entry for
\* every player of the players table, with total 0 for a player without
\* games.
C7_EveryPlayerCharted ==
    last.op = "minutes_chart" => \A p \in DOMAIN players : Charted(last.chart, p)

\* the same for generate_minutes_chart of
\* scrape_two_step_clickevent-working.py, whose query has no WHERE clause
EveryPlayerChartedClickevent ==
    last.op = "minutes_chart_clickevent" =>
        \A p \in DOMAIN players : Charted(last.chart, p)

\* every entry of the chart data has a total above zero
OnlyScorers(chart) ==
    IsNone(chart) \/ \A i \in 1..Len(chart.list) : chart.list[i].value > 0

\* C8: the data generate_goals_chart hands to the chart holds only players
\* whose total goals is above zero, in either file that defines it.
C8_OnlyScorersCharted ==
    last.op \in {"goals_chart", "goals_chart_clickevent"} => OnlyScorers(last.chart)

\* the same for generate_goals_chart of scrape_two_step.py alone, whose
\* query has the HAVING clause
OnlyScorersChartedMain == last.op = "goals_chart" => OnlyScorers(last.chart)

---------------------------------------------------------------------------
(* The JSON path, under SpecFetch.                                         *)

\* C14: fetch_json_data returns None when the request fails, when the
\* response's status is not 200 and when its body is no JSON.
C14_NonOkIsAbsent ==
    (pc = "done" /\ (page = RequestFailed \/ page.status # 200
                       \/ page.body = Malformed)) => data = None

\* the same without the status: the part of the claim the function keeps
FailedOrMalformedIsAbsent ==
    (pc = "done" /\ (page = RequestFailed \/ page.body = Malformed)) => data = None

---------------------------------------------------------------------------
(* The end-to-end run, under SpecBatch.                                    *)

\* the players attempted so far are the first players of the roster
InRosterOrder == attempted = SubSeq(Roster, 1, Len(attempted))

\* C15: whatever the site delivers for each player, the players are
\* attempted in roster order and every player of the roster is eventually
\* attempted.
C15_EveryPlayerAttempted == [](InRosterOrder) /\ <>(attempted = Roster)

\* the whole roster was attempted though the page of the first player did
\* not load: the first player has no row, the last has
C15_Witness ==
    /\ attempted = Roster
    /\ pc = "next"
    /\ Roster[1] \notin DOMAIN players
    /\ Roster[Len(Roster)] \in DOMAIN players

---------------------------------------------------------------------------
(* Claims about the browser session.                                       *)

\* the steps without which there is no markup to capture
RequiredSteps == {"open", "scroll", "capture"}

RequiredStepRaised ==
    \E i \in 1..Len(session) : session[i][1] \in RequiredSteps

OptionalStepTimedOut ==
    \E i \in 1..Len(session) :
        session[i][1] \in {"consent_timeout", "trigger_timeout"}

LastOutcome == session[Len(session)]

\* C16: a timeout of an optional step (every cookie selector timing out, the
\* trigger link not becoming clickable) is passed over: after the cookie
\* step the session is at the scroll step, after the trigger step at the
\* capture step, and a session whose required steps did not raise ends with
\* the markup captured and scrape_from_page returning that markup's records,
\* not None.
C16_OptionalTimeoutFallsBack ==
    /\ (session # <<>> /\ LastOutcome[1] = "consent_timeout") => pc = "scroll"
    /\ (session # <<>> /\ LastOutcome[1] = "trigger_timeout") => pc = "capture"
    /\ (pc \in {"scraped", "done"} /\ OptionalStepTimedOut /\ ~RequiredStepRaised)
         => /\ LastOutcome = <<"captured">>
            /\ page # LoadFailed
            /\ games_data = List(ParseDivs(page.divs))

\* both optional steps timed out, no fallback click either, and the records
\* of the captured markup are returned
C16_Witness ==
    /\ pc = "scraped"
    /\ session = << <<"opened">>, <<"consent_timeout">>, <<"scrolled">>,
                    <<"trigger_timeout">>, <<"captured">> >>
    /\ page = Rendered(Run(1))
    /\ games_data = List(ParseDivs(Run(1)))
    /\ Len(games_data.list) = 1

---------------------------------------------------------------------------
(* Claims about the players table.                                         *)

\* the players table after the row (player_id, info) replaced the row of
\* player_id, if there was one
WithLatest(tbl, player_id, info) ==
    /\ DOMAIN players' = DOMAIN tbl \cup {player_id}
    /\ players'[player_id] = info
    /\ \A q \in DOMAIN tbl \ {player_id} : players'[q] = tbl[q]

\* C17: the players table has one row per player id ever saved, holding the
\* name, team and season year of the most recent save of that id: a save
\* adds the id's row or replaces it by the values saved and leaves every
\* other row as it was (save_player_stats_to_db saves the player or, for
\* data without games, nothing), and no other operation changes the table.
C17_PlayersHoldLatest ==
    [][ /\ last'.op = "save_player"
           => WithLatest(players, last'.player_id, last'.info)
        /\ last'.op = "save_player_stats"
           => \/ players' = players
              \/ WithLatest(players, last'.player_id, last'.info)
        /\ last'.op \notin {"save_player", "save_player_stats"}
           => players' = players ]_vars

\* player 1 was saved again with other values and holds them; the row of
\* player 2 is as saved
C17_Witness ==
    /\ last.op = "save_player"
    /\ last.player_id = 1
    /\ last.info = PlayerInfo(1, 2)
    /\ DOMAIN players = {1, 2}
    /\ players[1] = PlayerInfo(1, 2)
    /\ players[2] = PlayerInfo(2, 1)
    /\ games # EmptyBag

---------------------------------------------------------------------------
(* Claims about the games table as a whole.                                *)

\* the (player_id, game_timestamp) keys of the rows of a games table
KeysOf(tbl) == {<<r.player_id, r.game_timestamp>> : r \in BagToSet(tbl)}

\* C18: no operation deletes a game: over every step of save_player_to_db,
\* save_games_to_db, save_player_stats_to_db and the chart queries, the keys
\* (player_id, game_timestamp) of the games table before the step are keys
\* of the table after it.
C18_GamesNeverDeleted == [][KeysOf(games) \subseteq KeysOf(games')]_vars

\* both players have a game stored, and the last operation was a save of
\* player 1's games that updated a row
C18_Witness ==
    /\ last.op = "save_games"
    /\ last.player_id = 1
    /\ last.updated_games = 1
    /\ {k[1] : k \in KeysOf(games)} = {1, 2}

\* the positions of gd whose key has no row when the record is processed:
\* none in the table before the call and none from a record before it
AbsentWhenProcessed(tbl, p, gd) ==
    {i \in 1..Len(gd) :
        /\ CountAt(tbl, p, TimestampOf(gd[i])) = 0
        /\ \A j \in 1..(i - 1) : TimestampOf(gd[j]) # TimestampOf(gd[i])}

\* C19: save_games_to_db returns (inserted, updated): inserted counts the
\* records whose key had no row when the record was processed, updated the
\* records whose key had one; the two add up to the number of records, and
\* the games table grows by inserted rows.
C19_ReturnedCounts ==
    [][last'.op = "save_games" =>
          LET absent == AbsentWhenProcessed(games, last'.player_id,
                                            last'.games_data)
          IN  /\ ~last'.raised
              /\ last'.new_games = Cardinality(absent)
              /\ last'.updated_games
                    = Cardinality((1..Len(last'.games_data)) \ absent)
              /\ last'.new_games + last'.updated_games = Len(last'.games_data)
              /\ BagCardinality(games')
                    = BagCardinality(games) + last'.new_games]_vars

\* a call of two records with different keys, one of which had a row: one
\* inserted, one updated
C19_Witness ==
    /\ last.op = "save_games"
    /\ Len(last.games_data) = 2
    /\ TimestampOf(last.games_data[1]) # TimestampOf(last.games_data[2])
    /\ last.new_games = 1
    /\ last.updated_games = 1
    /\ BagCardinality(games) >= 2

\* C20: from the empty store, after any sequence of save_player_stats_to_db
\* calls, every row of the games table has a player_id that has a row in the
\* players table.
C20_GamesHavePlayers ==
    \A r \in BagToSet(games) : r.player_id \in DOMAIN players

\* both players have games stored, the last call inserted one
C20_Witness ==
    /\ last.op = "save_player_stats"
    /\ last.new_games = 1
    /\ {r.player_id : r \in BagToSet(games)} = PlayerIds
    /\ DOMAIN players = PlayerIds

---------------------------------------------------------------------------
(* Claims about records without a timestamp.                               *)

\* C21: records whose date did not parse all have the key (player_id, 0):
\* a save_games_to_db call with such records, distinct matches though they
\* are, returns normally and leaves exactly one row under (player_id, 0),
\* holding the values of the last record of the call; at most one record is
\* counted as new (none when the key had a row before the call) and every
\* other one as an update.
C21_UnparsedDatesCollide ==
    [][(last'.op = "save_games" /\ last'.games_data # <<>>) =>
          LET gd == last'.games_data
              p == last'.player_id
          IN  /\ \A i \in 1..Len(gd) : TimestampOf(gd[i]) = 0
              /\ ~last'.raised
              /\ CountAt(games', p, 0) = 1
              /\ RowsAt(games', p, 0) = {InsertedRow(p, gd[Len(gd)])}
              /\ last'.new_games = IF CountAt(games, p, 0) = 0 THEN 1 ELSE 0
              /\ last'.updated_games = Len(gd) - last'.new_games]_vars

\* two distinct matches persisted in one sequence: one insert, one update,
\* one row, and the row has the second match's values, not the first's
C21_Witness ==
    /\ last.op = "save_games"
    /\ Len(last.games_data) = 2
    /\ InsertedRow(last.player_id, last.games_data[1])
          # InsertedRow(last.player_id, last.games_data[2])
    /\ last.new_games = 1
    /\ last.updated_games = 1
    /\ RowsAt(games, last.player_id, 0)
          = {InsertedRow(last.player_id, last.games_data[2])}

---------------------------------------------------------------------------
(* Claims about executions side by side.                                   *)

\* the games table after the executions of set W ran one after the other
\* on the table the executions started on
RECURSIVE OneAfterTheOther(_, _)
OneAfterTheOther(W, tbl) ==
    IF W = {} THEN tbl
    ELSE LET w == CHOOSE v \in W : \A u \in W : v <= u
         IN  OneAfterTheOther(W \ {w},
                              SaveGames(tbl, w, writers[w].games_data).games)

Finished(w) == writers[w].pc \in {"done", "raised"}
Completed == {w \in WriterIds : writers[w].pc = "done"}

\* C22: two save_games_to_db executions for different players, their steps
\* interleaved, both complete, and once both have, the games table is the
\* one that running them one after the other gives, with one row per key.
C22_ConcurrentWritersSafe ==
    /\ \A w \in WriterIds : writers[w].pc # "raised"
    /\ Completed = WriterIds =>
          /\ games = OneAfterTheOther(WriterIds, writers[1].before)
          /\ OneRowPerKey

\* what does hold: once both executions have ended, the games table is the
\* one that the completed executions give when run one after the other,
\* with one row per key, and a completed execution returns the counts it
\* returns when run alone; an execution that raised has written nothing
WritersSerializable ==
    (\A w \in WriterIds : Finished(w)) =>
        /\ games = OneAfterTheOther(Completed, writers[1].before)
        /\ OneRowPerKey
        /\ \A w \in Completed :
              \E r \in {SaveGames(writers[w].before, w, writers[w].games_data)} :
                 /\ writers[w].new_games = r.new_games
                 /\ writers[w].updated_games = r.updated_games

\* the rows of player p in a games table
RowsOfPlayer(tbl, p) ==
    LET rows == {r \in BagToSet(tbl) : r.player_id = p}
    IN  [r \in rows |-> CopiesIn(r, tbl)]

\* C23: a save_games_to_db call commits once, after its last record: when a
\* statement raises at the k-th record, nothing the call did for the
\* records before it is in the games table, and the rows of the call's
\* player are those from before the call.
C23_AllOrNothing ==
    \A w \in DOMAIN writers :
        writers[w].pc = "raised" =>
            RowsOfPlayer(games, w) = RowsOfPlayer(writers[w].before, w)

\* an execution raised at its second record after it had updated the row of
\* its first record to other values; the other execution has committed
C23_Witness ==
    /\ writers[1].pc = "raised"
    /\ writers[1].i = 2
    /\ writers[1].updated_games = 1
    /\ RowsOfPlayer(writers[1].tbl, 1) # RowsOfPlayer(writers[1].before, 1)
    /\ writers[2].pc = "done"
    /\ writers[2].new_games = 1

---------------------------------------------------------------------------
(* Claims about what is left alone.                                        *)

\* data that save_player_stats_to_db takes for nothing
NoStats(d) == IsNone(d) \/ d = EmptyDict \/ "spieleAlle" \notin DOMAIN d

\* C24: in the run over the roster, the attempt of a player writes nothing,
\* and for a player whose scrape failed or gave no record the step after it
\* writes neither the players nor the games table; a save_player_stats_to_db
\* call with no data or with data without 'spieleAlle' returns (0, 0) and
\* writes neither table.
C24_NothingWrittenWithoutGames ==
    [][ /\ (pc # "fetched" /\ pc' = "fetched")
              => (players' = players /\ games' = games)
        /\ (pc = "fetched" /\ pc' = "next" /\ Falsy(games_data))
              => (players' = players /\ games' = games)
        /\ (last'.op = "save_player_stats" /\ NoStats(last'.data))
              => /\ last'.new_games = 0
                 /\ last'.updated_games = 0
                 /\ players' = players
                 /\ games' = games ]_vars

\* the run is past a player whose page had no game and who is in neither
\* table, while another player is stored with a game; the last call of
\* save_player_stats_to_db had data without 'spieleAlle'
C24_Witness ==
    /\ pc = "next"
    /\ page = Rendered(<<>>)
    /\ attempted = <<1, 2>>
    /\ DOMAIN players = {1}
    /\ {r.player_id : r \in BagToSet(games)} = {1}
    /\ last.op = "save_player_stats"
    /\ last.player_id = 2
    /\ last.data = [error |-> <<"n", "o">>]
    /\ last.new_games = 0

---------------------------------------------------------------------------
(* Claims about games without a date.                                      *)

\* a games table without its rows of timestamp 0
Dated(tbl) ==
    LET rows == {r \in BagToSet(tbl) : r.game_timestamp # 0}
    IN  [r \in rows |-> CopiesIn(r, tbl)]

\* C25: a games row with timestamp 0 has a NULL game_date, after inserts
\* and updates alike, and the windowed charts of scrape_two_step.py are
\* what they are for the table without such rows: a game with timestamp 0
\* adds to neither the minutes nor the goals of its player.
C25_UndatedGamesNotCounted ==
    /\ \A r \in BagToSet(games) : r.game_timestamp = 0 => r.game_date = NULL
    /\ last.op = "minutes_chart" =>
          \E results \in Ordered(WindowQuery(players, Dated(games),
                                             "minutes_played"), TRUE) :
              last.chart = ChartInput(results)
    /\ last.op = "goals_chart" =>
          \E results \in Ordered(Having(WindowQuery(players, Dated(games),
                                                    "goals")), TRUE) :
              last.chart = ChartInput(results)

\* player 1 has a dated game and a game of timestamp 0 with goals, player 2
\* only a game of timestamp 0 with goals: the goals chart shows player 1
\* with the goals of the dated game and does not show player 2
C25_Witness ==
    /\ last.op = "goals_chart"
    /\ DOMAIN players = PlayerIds
    /\ \E r \in RowsAt(games, 1, 0) : r.goals > 0 /\ r.minutes_played > 0
    /\ \E r \in RowsAt(games, 2, 0) : r.goals > 0
    /\ \A r \in BagToSet(games) : r.player_id = 2 => r.game_timestamp = 0
    /\ \E r \in BagToSet(games) :
          /\ r.player_id = 1
          /\ r.game_timestamp # 0
          /\ r.goals > 0
          /\ last.chart = List(<<[player_name |-> players[1].player_name,
                                  value |-> r.goals]>>)
====
